---- MODULE Spec2Model ----
(***************************************************************************)
(* Model of grammers-mtsender/src/retry.rs: the RetryPolicy trait, its two *)
(* implementations NoRetry and Fixed, and one session of the retrying!     *)
(* macro (an async loop around a fallible body).                           *)
(*                                                                         *)
(* Spec        one session of retrying!(policy, body)                      *)
(* SpecPolicy  should_retry called directly, any arguments, any order      *)
(* SpecShared  two sessions of retrying! that share one policy             *)
(* SpecLive    one session with NoRetry or Fixed that is never dropped and *)
(*             whose body and sleep always return (weak fairness)          *)
(*                                                                         *)
(* The attempts counter is a usize; it would overflow only after 2^64      *)
(* invocations, which the bound MaxInvocations keeps out of reach, so it   *)
(* is modelled as a natural number.                                        *)
(***************************************************************************)
EXTENDS Integers, Sequences, FiniteSets, TLC

\* ---- bounds -------------------------------------------------------------
\* invocations of the body one session may start in the model
MaxInvocations == 3
\* largest Duration (in ticks) a policy may ask for
MaxDelay == 1
\* number of distinct error values the body may return
NumErrors == 3
\* direct calls of should_retry in SpecPolicy
MaxProbes == 3

VARIABLES
    policy,      \* $policy: the RetryPolicy instance
    op,          \* $body: the result its i-th evaluation yields
    pc,          \* position of the session inside the macro
    attempts,    \* let mut attempts
    res,         \* let res = $body
    started,     \* evaluations of $body begun so far
    timeout,     \* the Duration bound by Continue(timeout)
    remaining,   \* ticks left of the running tokio::time::sleep
    result,      \* value the loop expression broke with
    calls,       \* log: should_retry calls made by the session
    sleeps,      \* log: durations handed to tokio::time::sleep
    droppedAt,   \* await point at which the future was dropped
    probes,      \* log: direct should_retry calls (SpecPolicy)
    policy0,     \* the policy as it was constructed
    sessions     \* the sessions that share $policy (SpecShared)

vars == <<policy, op, pc, attempts, res, started, timeout, remaining,
          result, calls, sleeps, droppedAt, probes, policy0, sessions>>

\* ---- values -------------------------------------------------------------
\* Result<V, E>
Ok(v) == [kind |-> "Ok", val |-> v]
Err(e) == [kind |-> "Err", val |-> e]
\* no value bound yet
NoResult == [kind |-> "None", val |-> 0]

\* the values V a successful body may return
Values == {0, 1}

OpResults == {Ok(v) : v \in Values} \cup {Err(e) : e \in 1..NumErrors}

\* ControlFlow<(), Duration>
Continue(d) == [kind |-> "Continue", d |-> d]
Break == [kind |-> "Break", d |-> 0]

Decisions == {Break} \cup {Continue(d) : d \in 0..MaxDelay}

\* ---- policies -----------------------------------------------------------
\* pub struct NoRetry;
NoRetry == [kind |-> "NoRetry", attempts |-> 0, delay |-> 0, table |-> <<>>]

\* Fixed::new(attempts, delay)
Fixed_new(n, d) == [kind |-> "Fixed", attempts |-> n, delay |-> d, table |-> <<>>]

\* any other implementor of the trait: a pure function of attempts
Custom(t) == [kind |-> "Custom", attempts |-> 0, delay |-> 0, table |-> t]

FixedPolicies == {Fixed_new(n, d) : n \in 0..(MaxInvocations - 1), d \in 0..MaxDelay}

CustomPolicies == {Custom(t) : t \in [1..MaxInvocations -> Decisions]}

\* variants of the code below, each with one plausible slip
\* `attempts < self.attempts`
Fixed_should_retry_lt(self, n) ==
    IF n < self.attempts
    THEN [ret |-> Continue(self.delay), self |-> self]
    ELSE [ret |-> Break, self |-> self]

\* Continue(Duration::ZERO) instead of Continue(self.delay)
Fixed_should_retry_nodelay(self, n) ==
    IF n <= self.attempts
    THEN [ret |-> Continue(0), self |-> self]
    ELSE [ret |-> Break, self |-> self]

\* a policy that counts its own budget down through interior mutability
Fixed_should_retry_countdown(self, n) ==
    IF n <= self.attempts
    THEN [ret |-> Continue(self.delay),
          self |-> [self EXCEPT !.attempts = self.attempts - 1]]
    ELSE [ret |-> Break, self |-> self]

\* NoRetry answering Continue(0)
NoRetry_should_retry_continue(self, n) == [ret |-> Continue(0), self |-> self]

\* a call of should_retry yields the returned ControlFlow (ret) and leaves the
\* receiver in some state (self); &self is only read here
Fixed_should_retry(self, n) ==
    IF n <= self.attempts
    THEN [ret |-> Continue(self.delay), self |-> self]
    ELSE [ret |-> Break, self |-> self]

NoRetry_should_retry(self, n) == [ret |-> Break, self |-> self]

Custom_should_retry(self, n) == [ret |-> self.table[n], self |-> self]

\* dynamic dispatch of RetryPolicy::should_retry
should_retry(self, n) ==
    CASE self.kind = "Fixed" -> Fixed_should_retry(self, n)
      [] self.kind = "NoRetry" -> NoRetry_should_retry(self, n)
      [] OTHER -> Custom_should_retry(self, n)

\* ---- one session of retrying! -------------------------------------------
Init ==
    /\ policy \in {NoRetry} \cup FixedPolicies \cup CustomPolicies
    /\ op \in [1..MaxInvocations -> OpResults]
    /\ pc = "loop"
    /\ attempts = 0
    /\ res = NoResult
    /\ started = 0
    /\ timeout = 0
    /\ remaining = 0
    /\ result = NoResult
    /\ calls = <<>>
    /\ sleeps = <<>>
    /\ droppedAt = "none"
    /\ probes = <<>>
    /\ policy0 = policy
    /\ sessions = <<>>

\* loop { let res = $body; -- the body starts to run
BodyStart ==
    /\ pc = "loop"
    /\ started < MaxInvocations
    /\ started' = started + 1
    /\ pc' = "body"
    /\ UNCHANGED <<policy, op, attempts, res, timeout, remaining, result,
                   calls, sleeps, droppedAt, probes,
                   policy0, sessions>>

\* let res = $body; -- the body has produced its Result
BodyReturn ==
    /\ pc = "body"
    /\ res' = op[started]
    /\ pc' = "incr"
    /\ UNCHANGED <<policy, op, attempts, started, timeout, remaining, result,
                   calls, sleeps, droppedAt, probes,
                   policy0, sessions>>

\* `let mut attempts = 0` moved inside the loop
Incr_reset ==
    /\ pc = "incr"
    /\ attempts' = 1
    /\ pc' = "match"
    /\ UNCHANGED <<policy, op, res, started, timeout, remaining, result,
                   calls, sleeps, droppedAt, probes,
                   policy0, sessions>>

\* `attempts += 1` moved into the Err arm
Incr_onlyErr ==
    /\ pc = "incr"
    /\ attempts' = IF res.kind = "Err" THEN attempts + 1 ELSE attempts
    /\ pc' = "match"
    /\ UNCHANGED <<policy, op, res, started, timeout, remaining, result,
                   calls, sleeps, droppedAt, probes,
                   policy0, sessions>>

\* `attempts += 1` left out
Incr_forgotten ==
    /\ pc = "incr"
    /\ attempts' = attempts
    /\ pc' = "match"
    /\ UNCHANGED <<policy, op, res, started, timeout, remaining, result,
                   calls, sleeps, droppedAt, probes,
                   policy0, sessions>>

\* attempts += 1;
Incr ==
    /\ pc = "incr"
    /\ attempts' = attempts + 1
    /\ pc' = "match"
    /\ UNCHANGED <<policy, op, res, started, timeout, remaining, result,
                   calls, sleeps, droppedAt, probes,
                   policy0, sessions>>

\* `continue` instead of `break Ok(value)`
MatchOk_continue ==
    /\ pc = "match"
    /\ res.kind = "Ok"
    /\ pc' = "loop"
    /\ UNCHANGED <<policy, op, attempts, res, started, timeout, remaining,
                   result, calls, sleeps, droppedAt, probes, policy0, sessions,
                   policy0, sessions>>

\* Ok(value) => break Ok(value)
MatchOk ==
    /\ pc = "match"
    /\ res.kind = "Ok"
    /\ result' = Ok(res.val)
    /\ pc' = "done"
    /\ UNCHANGED <<policy, op, attempts, res, started, timeout, remaining,
                   calls, sleeps, droppedAt, probes,
                   policy0, sessions>>

\* a retry limit of 2 built into the loop: Continue is ignored from then on
MatchErrContinue_capped ==
    /\ pc = "match"
    /\ res.kind = "Err"
    /\ LET r == should_retry(policy, attempts) IN
        /\ r.ret.kind = "Continue"
        /\ policy' = r.self
        /\ calls' = Append(calls, [attempts |-> attempts, ret |-> r.ret])
        /\ IF attempts >= 2
           THEN /\ result' = res
                /\ pc' = "done"
                /\ UNCHANGED <<timeout, remaining, sleeps>>
           ELSE /\ timeout' = r.ret.d
                /\ remaining' = r.ret.d
                /\ sleeps' = Append(sleeps, r.ret.d)
                /\ pc' = "sleep"
                /\ UNCHANGED result
    /\ UNCHANGED <<op, attempts, res, started, droppedAt, probes,
                   policy0, sessions>>

\* a zero timeout skips tokio::time::sleep
MatchErrContinue_nosleep ==
    /\ pc = "match"
    /\ res.kind = "Err"
    /\ LET r == should_retry(policy, attempts) IN
        /\ r.ret.kind = "Continue"
        /\ policy' = r.self
        /\ calls' = Append(calls, [attempts |-> attempts, ret |-> r.ret])
        /\ timeout' = r.ret.d
        /\ remaining' = r.ret.d
        /\ IF r.ret.d = 0
           THEN pc' = "loop" /\ UNCHANGED sleeps
           ELSE pc' = "sleep" /\ sleeps' = Append(sleeps, r.ret.d)
    /\ UNCHANGED <<op, attempts, res, started, result, droppedAt, probes,
                   policy0, sessions>>

\* the sleep is given the Duration of the previous Continue
MatchErrContinue_stale ==
    /\ pc = "match"
    /\ res.kind = "Err"
    /\ LET r == should_retry(policy, attempts) IN
        /\ r.ret.kind = "Continue"
        /\ policy' = r.self
        /\ calls' = Append(calls, [attempts |-> attempts, ret |-> r.ret])
        /\ timeout' = r.ret.d
        /\ remaining' = timeout
        /\ sleeps' = Append(sleeps, timeout)
    /\ pc' = "sleep"
    /\ UNCHANGED <<op, attempts, res, started, result, droppedAt, probes,
                   policy0, sessions>>

\* Err(_) => match $policy.should_retry(attempts) { Continue(timeout) =>
\*     tokio::time::sleep(timeout) -- the sleep future is created and awaited
MatchErrContinue ==
    /\ pc = "match"
    /\ res.kind = "Err"
    /\ LET r == should_retry(policy, attempts) IN
        /\ r.ret.kind = "Continue"
        /\ policy' = r.self
        /\ calls' = Append(calls, [attempts |-> attempts, ret |-> r.ret])
        /\ timeout' = r.ret.d
        /\ remaining' = r.ret.d
        /\ sleeps' = Append(sleeps, r.ret.d)
    /\ pc' = "sleep"
    /\ UNCHANGED <<op, attempts, res, started, result, droppedAt, probes,
                   policy0, sessions>>

\* the first error is kept and returned instead of the last one
MatchErrBreak_first ==
    /\ pc = "match"
    /\ res.kind = "Err"
    /\ LET r == should_retry(policy, attempts) IN
        /\ r.ret.kind = "Break"
        /\ policy' = r.self
        /\ calls' = Append(calls, [attempts |-> attempts, ret |-> r.ret])
    /\ result' = op[1]
    /\ pc' = "done"
    /\ UNCHANGED <<op, attempts, res, started, timeout, remaining, sleeps,
                   droppedAt, probes,
                   policy0, sessions>>

\* `continue` instead of `break res`
MatchErrBreak_continue ==
    /\ pc = "match"
    /\ res.kind = "Err"
    /\ LET r == should_retry(policy, attempts) IN
        /\ r.ret.kind = "Break"
        /\ policy' = r.self
        /\ calls' = Append(calls, [attempts |-> attempts, ret |-> r.ret])
    /\ pc' = "loop"
    /\ UNCHANGED <<op, attempts, res, started, timeout, remaining, sleeps,
                   result, droppedAt, probes, policy0, sessions>>

\* Err(_) => match $policy.should_retry(attempts) { Break(_) => break res
MatchErrBreak ==
    /\ pc = "match"
    /\ res.kind = "Err"
    /\ LET r == should_retry(policy, attempts) IN
        /\ r.ret.kind = "Break"
        /\ policy' = r.self
        /\ calls' = Append(calls, [attempts |-> attempts, ret |-> r.ret])
    /\ result' = res
    /\ pc' = "done"
    /\ UNCHANGED <<op, attempts, res, started, timeout, remaining, sleeps,
                   droppedAt, probes,
                   policy0, sessions>>

\* time passes while tokio::time::sleep(timeout) is pending
Tick ==
    /\ pc = "sleep"
    /\ remaining > 0
    /\ remaining' = remaining - 1
    /\ UNCHANGED <<policy, op, pc, attempts, res, started, timeout, result,
                   calls, sleeps, droppedAt, probes,
                   policy0, sessions>>

\* the timer firing resumes the loop although the future was dropped
Wake_afterDrop ==
    /\ pc \in {"sleep", "dropped"}
    /\ remaining = 0
    /\ pc' = "loop"
    /\ UNCHANGED <<policy, op, attempts, res, started, timeout, remaining,
                   result, calls, sleeps, droppedAt, probes, policy0, sessions,
                   policy0, sessions>>

\* the loop goes on without awaiting the end of the sleep
Wake_early ==
    /\ pc = "sleep"
    /\ pc' = "loop"
    /\ UNCHANGED <<policy, op, attempts, res, started, timeout, remaining,
                   result, calls, sleeps, droppedAt, probes,
                   policy0, sessions>>

\* .await; continue; -- the sleep has elapsed, back to the top of the loop
Wake ==
    /\ pc = "sleep"
    /\ remaining = 0
    /\ pc' = "loop"
    /\ UNCHANGED <<policy, op, attempts, res, started, timeout, remaining,
                   result, calls, sleeps, droppedAt, probes, policy0, sessions,
                   policy0, sessions>>

\* dropping the future hands the last Result to the caller
Drop_withRes ==
    /\ pc \in {"body", "sleep"}
    /\ droppedAt' = pc
    /\ pc' = "dropped"
    /\ result' = res
    /\ UNCHANGED <<policy, op, attempts, res, started, timeout, remaining,
                   calls, sleeps, probes,
                   policy0, sessions>>

\* the enclosing future is dropped while pending at an .await: inside $body
\* or inside tokio::time::sleep(timeout).await.  Nothing after the await runs.
Drop ==
    /\ pc \in {"body", "sleep"}
    /\ droppedAt' = pc
    /\ pc' = "dropped"
    /\ UNCHANGED <<policy, op, attempts, res, started, timeout, remaining,
                   result, calls, sleeps, probes,
                   policy0, sessions>>

Next ==
    \/ BodyStart
    \/ BodyReturn
    \/ Incr
    \/ MatchOk
    \/ MatchErrContinue
    \/ MatchErrBreak
    \/ Tick
    \/ Wake
    \/ Drop

Spec == Init /\ [][Next]_vars

\* ---- should_retry called directly ---------------------------------------
InitPolicy ==
    /\ policy \in {NoRetry} \cup FixedPolicies
    /\ op = [i \in 1..MaxInvocations |-> Ok(0)]
    /\ pc = "idle"
    /\ attempts = 0
    /\ res = NoResult
    /\ started = 0
    /\ timeout = 0
    /\ remaining = 0
    /\ result = NoResult
    /\ calls = <<>>
    /\ sleeps = <<>>
    /\ droppedAt = "none"
    /\ probes = <<>>
    /\ policy0 = policy
    /\ sessions = <<>>

\* policy.should_retry(m)
Probe(m) ==
    /\ pc = "idle"
    /\ Len(probes) < MaxProbes
    /\ LET r == should_retry(policy, m) IN
        /\ policy' = r.self
        /\ probes' = Append(probes, [attempts |-> m, ret |-> r.ret,
                                     before |-> policy, after |-> r.self])
    /\ UNCHANGED <<op, pc, attempts, res, started, timeout, remaining, result,
                   calls, sleeps, droppedAt,
                   policy0, sessions>>

NextPolicy == \E m \in 0..(MaxInvocations + 1) : Probe(m)

SpecPolicy == InitPolicy /\ [][NextPolicy]_vars

\* ---- a session that is left to run --------------------------------------
InitLive ==
    /\ Init
    /\ policy \in {NoRetry} \cup FixedPolicies

\* the steps of the session itself: the future is polled until it completes
\* and is never dropped
NextLive ==
    \/ BodyStart
    \/ BodyReturn
    \/ Incr
    \/ MatchOk
    \/ MatchErrContinue
    \/ MatchErrBreak
    \/ Tick
    \/ Wake

\* the body returns, the timer advances and fires, the executor polls the
\* future whenever it can make progress
SpecLive == InitLive /\ [][NextLive]_vars /\ WF_vars(NextLive)

\* ---- two sessions sharing $policy ---------------------------------------
\* the sessions that run concurrently
Sessions == {1, 2}

\* tests::Erroring::new(cnt) behind `err.run().await`: cnt errors, each
\* carrying the count left, then Ok
Erroring(cnt) ==
    [i \in 1..MaxInvocations |-> IF i <= cnt THEN Err(cnt - i) ELSE Ok(0)]

\* the locals of one expansion of retrying! before its first step
Session0(o) ==
    [op |-> o, pc |-> "loop", attempts |-> 0, res |-> NoResult,
     started |-> 0, timeout |-> 0, remaining |-> 0, result |-> NoResult,
     calls |-> <<>>, sleeps |-> <<>>]

\* the session has a next step of its own
CanStep(s) ==
    \/ s.pc \in {"body", "incr", "match", "sleep"}
    \/ s.pc = "loop" /\ s.started < MaxInvocations

\* the next step of the macro for a session with locals s and policy p: the
\* locals after the step (ses) and the policy after the step (pol)
StepOf(s, p) ==
    CASE s.pc = "loop" ->
            [ses |-> [s EXCEPT !.started = @ + 1, !.pc = "body"], pol |-> p]
      [] s.pc = "body" ->
            [ses |-> [s EXCEPT !.res = s.op[s.started], !.pc = "incr"],
             pol |-> p]
      [] s.pc = "incr" ->
            [ses |-> [s EXCEPT !.attempts = @ + 1, !.pc = "match"], pol |-> p]
      [] s.pc = "match" /\ s.res.kind = "Ok" ->
            [ses |-> [s EXCEPT !.result = Ok(s.res.val), !.pc = "done"],
             pol |-> p]
      [] s.pc = "match" /\ s.res.kind = "Err" ->
            LET r == should_retry(p, s.attempts)
                c == Append(s.calls, [attempts |-> s.attempts, ret |-> r.ret])
            IN  IF r.ret.kind = "Continue"
                THEN [ses |-> [s EXCEPT !.calls = c,
                                        !.timeout = r.ret.d,
                                        !.remaining = r.ret.d,
                                        !.sleeps = Append(@, r.ret.d),
                                        !.pc = "sleep"],
                      pol |-> r.self]
                ELSE [ses |-> [s EXCEPT !.calls = c,
                                        !.result = s.res,
                                        !.pc = "done"],
                      pol |-> r.self]
      [] s.pc = "sleep" /\ s.remaining > 0 ->
            [ses |-> [s EXCEPT !.remaining = @ - 1], pol |-> p]
      [] s.pc = "sleep" /\ s.remaining = 0 ->
            [ses |-> [s EXCEPT !.pc = "loop"], pol |-> p]

\* the session run on its own, with no other user of the policy
RECURSIVE RunAlone(_, _)
RunAlone(s, p) ==
    IF CanStep(s)
    THEN LET n == StepOf(s, p) IN RunAlone(n.ses, n.pol)
    ELSE s

InitShared ==
    /\ policy \in {NoRetry} \cup FixedPolicies \cup CustomPolicies
    /\ policy0 = policy
    /\ sessions \in [Sessions -> {Session0(Erroring(c)) : c \in 0..MaxInvocations}]
    /\ op = [i \in 1..MaxInvocations |-> Ok(0)]
    /\ pc = "idle"
    /\ attempts = 0
    /\ res = NoResult
    /\ started = 0
    /\ timeout = 0
    /\ remaining = 0
    /\ result = NoResult
    /\ calls = <<>>
    /\ sleeps = <<>>
    /\ droppedAt = "none"
    /\ probes = <<>>

\* session i takes its next step against the shared policy
SStep(i) ==
    /\ CanStep(sessions[i])
    /\ LET n == StepOf(sessions[i], policy) IN
        /\ sessions' = [sessions EXCEPT ![i] = n.ses]
        /\ policy' = n.pol
    /\ UNCHANGED <<op, pc, attempts, res, started, timeout, remaining, result,
                   calls, sleeps, droppedAt, probes, policy0>>

SBodyStart(i) == sessions[i].pc = "loop" /\ SStep(i)

SBodyReturn(i) == sessions[i].pc = "body" /\ SStep(i)

SIncr(i) == sessions[i].pc = "incr" /\ SStep(i)

SMatchOk(i) ==
    sessions[i].pc = "match" /\ sessions[i].res.kind = "Ok" /\ SStep(i)

SMatchErr(i) ==
    sessions[i].pc = "match" /\ sessions[i].res.kind = "Err" /\ SStep(i)

STick(i) ==
    sessions[i].pc = "sleep" /\ sessions[i].remaining > 0 /\ SStep(i)

SWake(i) ==
    sessions[i].pc = "sleep" /\ sessions[i].remaining = 0 /\ SStep(i)

\* the future of session i is dropped at one of its await points
SDrop(i) ==
    /\ sessions[i].pc \in {"body", "sleep"}
    /\ sessions' = [sessions EXCEPT ![i].pc = "dropped"]
    /\ UNCHANGED <<policy, op, pc, attempts, res, started, timeout, remaining,
                   result, calls, sleeps, droppedAt, probes, policy0>>

NextShared ==
    \E i \in Sessions :
        \/ SBodyStart(i)
        \/ SBodyReturn(i)
        \/ SIncr(i)
        \/ SMatchOk(i)
        \/ SMatchErr(i)
        \/ STick(i)
        \/ SWake(i)
        \/ SDrop(i)

SpecShared == InitShared /\ [][NextShared]_vars

\* ---- helpers for the properties ------------------------------------------
IsFixed == policy.kind = "Fixed"

\* the first n evaluations of the body all fail
FailsUpTo(n) == \A i \in 1..n : i \in DOMAIN op /\ op[i].kind = "Err"

\* the body succeeds for the first time on evaluation k
FirstOkAt(k) == k \in DOMAIN op /\ op[k].kind = "Ok" /\ FailsUpTo(k - 1)

\* the errors the body returns are pairwise distinct
DistinctErrors ==
    \A i, j \in DOMAIN op :
        (i # j /\ op[i].kind = "Err" /\ op[j].kind = "Err") => op[i] # op[j]

\* the policy answers Continue whatever attempts is
AlwaysContinue ==
    \A n \in 1..MaxInvocations : should_retry(policy, n).ret.kind = "Continue"

LastCall == calls[Len(calls)]

\* ---- C1 -----------------------------------------------------------------
\* C1: with Fixed{attempts = n} the body is never evaluated more than n+1
\* times, and when its first n+1 evaluations all fail the session ends after
\* exactly n+1 evaluations with an Err (whatever evaluation n+2 would give).
C1_FixedExhausted ==
    IsFixed =>
        /\ started <= policy.attempts + 1
        /\ FailsUpTo(policy.attempts + 1) => result.kind # "Ok"
        /\ (pc = "done" /\ FailsUpTo(policy.attempts + 1)) =>
               (started = policy.attempts + 1 /\ result.kind = "Err")

C1_Witness ==
    /\ IsFixed /\ policy.attempts = 1
    /\ FailsUpTo(2) /\ op[3].kind = "Ok"
    /\ pc = "done" /\ started = 2 /\ result.kind = "Err"

\* ---- C2 -----------------------------------------------------------------
\* C2: with Fixed{attempts = n}, if the body first succeeds on evaluation k
\* with k <= n+1, the session never evaluates the body more than k times and
\* ends after exactly k evaluations with the Ok of evaluation k.
C2_FixedSucceedsAtK ==
    \A k \in 1..MaxInvocations :
        (IsFixed /\ FirstOkAt(k) /\ k <= policy.attempts + 1) =>
            /\ started <= k
            /\ result.kind # "Err"
            /\ pc = "done" => (started = k /\ result = op[k])

C2_Witness ==
    /\ IsFixed /\ policy.attempts >= 1
    /\ FirstOkAt(policy.attempts + 1)
    /\ pc = "done" /\ started = policy.attempts + 1 /\ result = op[started]

\* ---- C3 -----------------------------------------------------------------
\* C3: with NoRetry the body is evaluated at most once, the session never
\* sleeps, and it ends with exactly the Result of that one evaluation.
C3_NoRetryOnce ==
    policy.kind = "NoRetry" =>
        /\ started <= 1
        /\ pc # "sleep" /\ sleeps = <<>>
        /\ pc = "done" => (started = 1 /\ result = op[1])

C3_Witness ==
    /\ policy.kind = "NoRetry" /\ pc = "done"
    /\ op[1].kind = "Err" /\ result = op[1]
    /\ Len(calls) = 1 /\ calls[1].ret = Break /\ sleeps = <<>>

\* ---- C4 -----------------------------------------------------------------
\* C4: when the body's errors are pairwise distinct and the session ends in
\* failure, the returned error is the one of the last evaluation and of no
\* earlier one.
C4_LastError ==
    (DistinctErrors /\ pc = "done" /\ result.kind = "Err") =>
        /\ result = op[started]
        /\ \A i \in 1..(started - 1) : result # op[i]

C4_Witness ==
    /\ DistinctErrors /\ pc = "done" /\ result.kind = "Err"
    /\ started >= 3 /\ result = op[started]

\* ---- C5 -----------------------------------------------------------------
\* C5: the i-th call of should_retry in a session receives attempts = i.
C5_AttemptsSequence ==
    \A i \in 1..Len(calls) : calls[i].attempts = i

C5_Witness ==
    /\ Len(calls) >= 3
    /\ calls[1].attempts = 1 /\ calls[2].attempts = 2 /\ calls[3].attempts = 3

\* ---- C6 -----------------------------------------------------------------
\* C6: Fixed::should_retry(m) is Continue(delay) when m <= attempts and Break
\* when m > attempts; with attempts = 0 every m >= 1 gives Break.
C6_FixedDecision ==
    \A i \in 1..Len(probes) :
        LET c == probes[i] IN
        c.before.kind = "Fixed" =>
            /\ c.attempts <= c.before.attempts => c.ret = Continue(c.before.delay)
            /\ c.attempts > c.before.attempts => c.ret = Break
            /\ (c.before.attempts = 0 /\ c.attempts >= 1) => c.ret = Break

C6_Witness ==
    /\ Len(probes) >= 2
    /\ probes[1].before.kind = "Fixed" /\ probes[1].before.delay = 1
    /\ probes[1].attempts = probes[1].before.attempts
    /\ probes[1].ret = Continue(1)
    /\ probes[2].attempts = probes[2].before.attempts + 1
    /\ probes[2].ret = Break

\* ---- C7 -----------------------------------------------------------------
\* C7: direct calls of Fixed::should_retry, in any order, give the same
\* decision for the same argument and leave the policy's fields unchanged.
C7_PolicyPure ==
    /\ \A i \in 1..Len(probes) :
           probes[i].before.kind = "Fixed" =>
               /\ probes[i].after = probes[i].before
               /\ policy = probes[i].before
    /\ \A i, j \in 1..Len(probes) :
           (probes[i].before.kind = "Fixed"
                /\ probes[i].attempts = probes[j].attempts) =>
               probes[i].ret = probes[j].ret

C7_Witness ==
    /\ Len(probes) = 3 /\ IsFixed
    /\ probes[1].attempts = probes[3].attempts
    /\ probes[2].attempts # probes[1].attempts
    /\ probes[1].ret.kind = "Continue" /\ probes[2].ret.kind = "Break"
    /\ probes[3].ret = probes[1].ret

\* ---- C8 -----------------------------------------------------------------
\* C8: a session is done only after a successful evaluation (with that Ok) or
\* after the policy answered Break (with an Err); with a policy that always
\* answers Continue and a body that always fails it is never done, however
\* many evaluations have been made.
C8_OnlyPolicyStops ==
    /\ pc = "done" =>
           \/ result.kind = "Ok" /\ res = result /\ op[started] = result
           \/ /\ result.kind = "Err"
              /\ calls # <<>>
              /\ LastCall.ret = Break
              /\ LastCall.attempts = started
    /\ (AlwaysContinue /\ FailsUpTo(MaxInvocations)) =>
           (pc # "done" /\ result = NoResult)

C8_Witness ==
    /\ AlwaysContinue /\ FailsUpTo(MaxInvocations)
    /\ started = MaxInvocations /\ Len(sleeps) = MaxInvocations
    /\ pc = "loop"

\* ---- C9 -----------------------------------------------------------------
\* C9: once the future is dropped during tokio::time::sleep, the body is not
\* evaluated again and the session never yields an Ok or an Err.
C9_DropDuringSleep ==
    [][ /\ (pc' = "dropped" /\ droppedAt' = "sleep") =>
            (started' = started /\ result' = NoResult)
        /\ pc = "dropped" => pc' = "dropped" ]_vars

C9_Witness ==
    /\ pc = "dropped" /\ droppedAt = "sleep"
    /\ started >= 1 /\ res.kind = "Err" /\ result = NoResult

State ==
    CASE pc \in {"loop", "body"} -> "Invoking"
      [] pc \in {"incr", "match"} ->
            IF res.kind = "Ok" THEN "Invoking" ELSE "Evaluating"
      [] pc = "sleep" -> "Suspended"
      [] pc = "done" -> IF result.kind = "Ok" THEN "DoneOk" ELSE "DoneErr"
      [] OTHER -> "Aborted"

Transitions ==
    { <<"Invoking", "DoneOk">>, <<"Invoking", "Evaluating">>,
      <<"Evaluating", "DoneErr">>, <<"Evaluating", "Suspended">>,
      <<"Suspended", "Invoking">> }

\* C11: a session starts in Invoking; every step the loop takes either stays
\* in its state or is Invoking->DoneOk (on an Ok), Invoking->Evaluating (on an
\* Err), Evaluating->DoneErr (on Break), Evaluating->Suspended (on Continue)
\* or Suspended->Invoking (sleep elapsed); nothing leaves a Done state.
C11_StateMachine ==
    /\ State = "Invoking"
    /\ [][ /\ State' # "Aborted" =>
               (State' = State \/ <<State, State'>> \in Transitions)
           /\ State \in {"DoneOk", "DoneErr"} => State' = State
           /\ (State = "Invoking" /\ State' = "DoneOk") =>
                  (res.kind = "Ok" /\ result' = res)
           /\ (State = "Invoking" /\ State' = "Evaluating") =>
                  res'.kind = "Err"
           /\ (State = "Evaluating" /\ State' = "DoneErr") =>
                  calls'[Len(calls')].ret = Break
           /\ (State = "Evaluating" /\ State' = "Suspended") =>
                  calls'[Len(calls')].ret.kind = "Continue"
           /\ (State = "Suspended" /\ State' = "Invoking") =>
                  remaining = 0 ]_vars

C11_Witness ==
    /\ State = "DoneErr" /\ started >= 2
    /\ Len(sleeps) = started - 1 /\ Len(calls) = started

\* ---- C12 ----------------------------------------------------------------
\* C12: an evaluation of the body begins only when none is in progress, and
\* evaluation i+1 begins only after evaluation i has returned an Err,
\* should_retry(i) has answered Continue, and the sleep for that duration has
\* fully elapsed.
C12_NoOverlap ==
    [][ started' # started =>
            /\ started' = started + 1
            /\ pc = "loop" /\ pc' = "body"
            /\ started >= 1 =>
                   /\ res = op[started] /\ res.kind = "Err"
                   /\ Len(calls) = started
                   /\ calls[started] =
                          [attempts |-> started, ret |-> Continue(timeout)]
                   /\ Len(sleeps) = started /\ sleeps[started] = timeout
                   /\ remaining = 0 ]_vars

C12_Witness ==
    /\ pc = "body" /\ started >= 2
    /\ timeout = 1 /\ remaining = 0
    /\ Len(calls) = started - 1 /\ Len(sleeps) = started - 1

\* ---- C13 ----------------------------------------------------------------
\* the Continue answers the session has received so far
ContinueCalls == {i \in 1..Len(calls) : calls[i].ret.kind = "Continue"}

\* C13: every Continue answer, a zero Duration included, is followed at once
\* by tokio::time::sleep with that Duration; the body is never evaluated again
\* without that sleep in between.
C13_AlwaysSleeps ==
    /\ [](Len(sleeps) = Cardinality(ContinueCalls))
    /\ [][ /\ (Len(calls') = Len(calls) + 1
                 /\ calls'[Len(calls')].ret.kind = "Continue") =>
               /\ pc' = "sleep"
               /\ sleeps' = Append(sleeps, calls'[Len(calls')].ret.d)
               /\ started' = started
           /\ (started' # started /\ started >= 1) =>
               (Len(sleeps) = started /\ Len(calls) = started) ]_vars

C13_Witness ==
    /\ pc = "body" /\ started = 2
    /\ calls = <<[attempts |-> 1, ret |-> Continue(0)]>>
    /\ sleeps = <<0>>

\* ---- C14 ----------------------------------------------------------------
\* C14: the i-th sleep is requested with exactly the Duration of the i-th
\* should_retry answer, which immediately precedes it, and the loop resumes
\* when that many ticks have passed, not before; with Fixed every sleep is
\* requested with the delay given to Fixed::new.
C14_SleepDuration ==
    /\ [](/\ \A i \in 1..Len(sleeps) :
                /\ i <= Len(calls) /\ calls[i].ret = Continue(sleeps[i])
                /\ policy0.kind = "Fixed" => sleeps[i] = policy0.delay
          /\ pc = "sleep" =>
                /\ Len(sleeps) = Len(calls)
                /\ timeout = sleeps[Len(sleeps)]
                /\ remaining \in 0..timeout)
    /\ [][ /\ (pc # "sleep" /\ pc' = "sleep") => remaining' = timeout'
           /\ (pc = "sleep" /\ pc' = "sleep") =>
                  (remaining' = remaining - 1 /\ timeout' = timeout)
           /\ (pc = "sleep" /\ pc' = "loop") => remaining = 0 ]_vars

C14_Witness ==
    /\ sleeps = <<0, 1>> /\ pc = "loop" /\ started = 2
    /\ timeout = 1 /\ remaining = 0

\* ---- C15 ----------------------------------------------------------------
\* C15: of two sessions that share one policy and interleave freely, each
\* passes 1, 2, 3, ... to should_retry whatever the other does, the policy
\* stays as constructed, and each session that runs to its end ends in the
\* state (evaluations made, calls, sleeps, result) it ends in when run alone.
C15_SessionsIndependent ==
    /\ policy = policy0
    /\ \A i \in Sessions :
           LET s == sessions[i] IN
           /\ \A j \in 1..Len(s.calls) : s.calls[j].attempts = j
           /\ (~CanStep(s) /\ s.pc # "dropped") =>
                  s = RunAlone(Session0(s.op), policy0)

C15_Witness ==
    /\ policy.kind = "Fixed" /\ policy.attempts = 1
    /\ sessions[1].pc = "done" /\ sessions[2].pc = "done"
    /\ sessions[1].started = 2 /\ sessions[1].result.kind = "Err"
    /\ sessions[2].started = 2 /\ sessions[2].result.kind = "Ok"
    /\ Len(sessions[1].calls) = 2 /\ Len(sessions[2].calls) = 1

\* ---- C16 ----------------------------------------------------------------
\* C16: attempts is incremented after every evaluation of the body, an Ok one
\* included, before the match: from the increment on it equals the number of
\* evaluations made; every should_retry call receives that number, all of
\* those evaluations having failed, and none is made once an Ok was returned.
C16_AttemptsCountsEvaluations ==
    /\ pc \in {"loop", "match", "sleep", "done"} => attempts = started
    /\ pc \in {"body", "incr"} => attempts = started - 1
    /\ pc = "dropped" =>
           attempts = IF droppedAt = "body" THEN started - 1 ELSE started
    /\ Len(calls) <= started
    /\ \A i \in 1..Len(calls) :
           /\ calls[i].attempts = i
           /\ FailsUpTo(i)
    /\ (res.kind = "Ok" /\ pc \in {"incr", "match", "done"}) =>
           /\ Len(calls) = started - 1
           /\ pc = "done" => (result = res /\ attempts = Len(calls) + 1)

C16_Witness ==
    /\ pc = "done" /\ result.kind = "Ok"
    /\ started = 2 /\ attempts = 2 /\ Len(calls) = 1

\* ---- C17 ----------------------------------------------------------------
\* C17: with Fixed{attempts = n} (NoRetry: n = 0), whatever the body returns,
\* a session that is left to run is eventually done, with an Ok or an Err,
\* and never makes more than n+1 evaluations or n sleeps.
C17_Terminates ==
    /\ [](/\ policy.kind \in {"Fixed", "NoRetry"}
          /\ started <= policy.attempts + 1
          /\ Len(sleeps) <= policy.attempts)
    /\ <>[](pc = "done" /\ result.kind \in {"Ok", "Err"})

C17_Witness ==
    /\ policy.kind = "Fixed" /\ policy.attempts = 2
    /\ pc = "done" /\ result.kind = "Err"
    /\ started = 3 /\ Len(sleeps) = 2

====
